---- MODULE Spec2Model ----
(***************************************************************************)
(* Monomial orderings of AvaAvarai/PolynomialOrdering (src/main.py).       *)
(*                                                                         *)
(* The three comparators compare_by_lex / compare_by_glex /                *)
(* compare_by_grevlex are operators computed the way the Python loops      *)
(* compute them.  The three determine_by_* functions are a state machine:  *)
(* the counting double loop, the placement loop (one step per iteration,   *)
(* so that an overwritten slot is visible) and the return.  As in the      *)
(* module-level script, determine_by_lex, determine_by_glex and            *)
(* determine_by_grevlex are called one after the other on the same Terms   *)
(* and Procedure.                                                          *)
(*                                                                         *)
(* Python lists are 0-based: the index values held in P are kept 0-based   *)
(* as in the source, and M[P[i]] is written M[P[i] + 1].                   *)
(***************************************************************************)
EXTENDS Integers, Sequences, FiniteSets, TLC

\* Terms, P     the arguments Terms and Procedure / P (main.py:150-156)
\* fn           the function being executed: "lex", "glex" or "grevlex"
\* pc           the position inside it: "count", "place", "compare", "done"
\* i            the index of the placement loop (main.py:88)
\* Count        the local Count (main.py:78)
\* TermsOut     the local TermsLex / TermsGlex / TermsGrevlex (main.py:76)
\* ordered      ordered_terms_lex / _glex / _grevlex (main.py:161-169)
\* returned     the functions that have returned
\* cmp          the values returned by the comparators on M1, M2, M3
VARIABLES Terms, P, fn, pc, i, Count, TermsOut, ordered, returned, cmp

vars == <<Terms, P, fn, pc, i, Count, TermsOut, ordered, returned, cmp>>

----------------------------------------------------------------------------
(* Bounds of the enumerated inputs *)

\* largest total degree of an enumerated monomial
MaxDeg == 2

\* largest number of terms of an enumerated term collection
MaxTerms == 3

----------------------------------------------------------------------------
(* Inputs *)

\* Test 2.2.3.b of the script
ScriptTerms == << <<2, 8, 0>>, <<5, 1, 4>>, <<1, 1, 3>>, <<1, 4, 0>> >>

Procedure == <<2, 1, 0>>

\* the two-variable input with a repeated term
TieTerms == << <<1, 0>>, <<1, 0>> >>

TieP == <<0, 1>>

\* the value of a slot of [None] * n: no exponent vector (exponents are >= 0)
None == << -1 >>

Fns == {"lex", "glex", "grevlex"}

RECURSIVE sum(_)
\* Python's sum(M)
sum(M) == IF M = << >> THEN 0 ELSE M[1] + sum(SubSeq(M, 2, Len(M)))

\* the monomials in nv variables of total degree at most MaxDeg
Monomials(nv) == {m \in [1..nv -> 0..MaxDeg] : sum(m) <= MaxDeg}

\* every sequence of at most nv in-range variable indices: the permutations
\* of 0..nv-1, and also the empty, partial and repeating ones
Procedures(nv) == UNION {[1..k -> 0..(nv - 1)] : k \in 0..nv}

\* term collections of at most MaxTerms monomials in nv variables
TermLists(nv) == UNION {[1..k -> Monomials(nv)] : k \in 0..MaxTerms}

IsPermutation(p, nv) ==
    /\ Len(p) = nv
    /\ \A v \in 0..(nv - 1) : \E k \in 1..Len(p) : p[k] = v

----------------------------------------------------------------------------
(* Comparators *)

RECURSIVE lex_loop(_, _, _, _)
\* for i in range(len(P)): the iteration at (1-based) position k and after
lex_loop(M1, M2, Pr, k) ==
    IF k > Len(Pr) THEN 0
    ELSE IF M1[Pr[k] + 1] < M2[Pr[k] + 1] THEN -1
    ELSE IF M1[Pr[k] + 1] > M2[Pr[k] + 1] THEN 1
    ELSE lex_loop(M1, M2, Pr, k + 1)

RECURSIVE lex_loop_reversed(_, _, _, _)
\* mutant loop: scans P from its last entry to its first
lex_loop_reversed(M1, M2, Pr, k) ==
    IF k < 1 THEN 0
    ELSE IF M1[Pr[k] + 1] < M2[Pr[k] + 1] THEN -1
    ELSE IF M1[Pr[k] + 1] > M2[Pr[k] + 1] THEN 1
    ELSE lex_loop_reversed(M1, M2, Pr, k - 1)

\* mutant: lex consulting P least-significant first
compare_by_lex_reversed(M1, M2, Pr) ==
    lex_loop_reversed(M1, M2, Pr, Len(Pr))

\* mutant: lex whose second branch is >= instead of >
compare_by_lex_ge(M1, M2, Pr) ==
    IF Len(Pr) = 0 THEN 0
    ELSE IF M1[Pr[1] + 1] < M2[Pr[1] + 1] THEN -1
    ELSE 1

compare_by_lex(M1, M2, Pr) ==
    lex_loop(M1, M2, Pr, 1)

RECURSIVE sum_over(_, _, _)
\* mutant degree: sums only the coordinates that P names
sum_over(M, Pr, k) ==
    IF k > Len(Pr) THEN 0 ELSE M[Pr[k] + 1] + sum_over(M, Pr, k + 1)

\* mutant: glex whose degree is taken over the coordinates in P
compare_by_glex_degP(M1, M2, Pr) ==
    LET deg1 == sum_over(M1, Pr, 1)
        deg2 == sum_over(M2, Pr, 1)
    IN  IF deg1 < deg2 THEN -1
        ELSE IF deg1 > deg2 THEN 1
        ELSE compare_by_lex(M1, M2, Pr)

\* mutant: glex that reports equal degree as equal
compare_by_glex_nofallback(M1, M2, Pr) ==
    LET deg1 == sum(M1)
        deg2 == sum(M2)
    IN  IF deg1 < deg2 THEN -1
        ELSE IF deg1 > deg2 THEN 1
        ELSE 0

compare_by_glex(M1, M2, Pr) ==
    LET deg1 == sum(M1)
        deg2 == sum(M2)
    IN  IF deg1 < deg2 THEN -1
        ELSE IF deg1 > deg2 THEN 1
        ELSE compare_by_lex(M1, M2, Pr)

RECURSIVE grevlex_loop(_, _, _, _)
\* for i in range(len(P)-1, -1, -1): the iteration at position k and before
grevlex_loop(M1, M2, Pr, k) ==
    IF k < 1 THEN 0
    ELSE IF M1[Pr[k] + 1] > M2[Pr[k] + 1] THEN -1
    ELSE IF M1[Pr[k] + 1] < M2[Pr[k] + 1] THEN 1
    ELSE grevlex_loop(M1, M2, Pr, k - 1)

RECURSIVE grevlex_loop_forward(_, _, _, _)
\* mutant loop: inverted comparison, but P scanned first entry first
grevlex_loop_forward(M1, M2, Pr, k) ==
    IF k > Len(Pr) THEN 0
    ELSE IF M1[Pr[k] + 1] > M2[Pr[k] + 1] THEN -1
    ELSE IF M1[Pr[k] + 1] < M2[Pr[k] + 1] THEN 1
    ELSE grevlex_loop_forward(M1, M2, Pr, k + 1)

\* mutant: grevlex whose tie-break scans P forward
compare_by_grevlex_forward(M1, M2, Pr) ==
    LET deg1 == sum(M1)
        deg2 == sum(M2)
    IN  IF deg1 < deg2 THEN -1
        ELSE IF deg1 > deg2 THEN 1
        ELSE grevlex_loop_forward(M1, M2, Pr, 1)

\* mutant: grevlex whose tie-break is not inverted
compare_by_grevlex_noinvert(M1, M2, Pr) ==
    LET deg1 == sum(M1)
        deg2 == sum(M2)
    IN  IF deg1 < deg2 THEN -1
        ELSE IF deg1 > deg2 THEN 1
        ELSE lex_loop_reversed(M1, M2, Pr, Len(Pr))

compare_by_grevlex(M1, M2, Pr) ==
    LET deg1 == sum(M1)
        deg2 == sum(M2)
    IN  IF deg1 < deg2 THEN -1
        ELSE IF deg1 > deg2 THEN 1
        ELSE grevlex_loop(M1, M2, Pr, Len(Pr))

\* the comparator that determine_by_<f> calls
compare(f, M1, M2, Pr) ==
    CASE f = "lex" -> compare_by_lex(M1, M2, Pr)
      [] f = "glex" -> compare_by_glex(M1, M2, Pr)
      [] f = "grevlex" -> compare_by_grevlex(M1, M2, Pr)

----------------------------------------------------------------------------
(* determine_by_lex, determine_by_glex, determine_by_grevlex *)

\* mutant: counts the terms that are strictly less than Terms[k]
count_less(f, T, Pr, k) ==
    Cardinality({j \in 1..Len(T) : compare(f, T[j], T[k], Pr) < 0})

\* mutant: also counts the earlier terms that compare equal (a stable rank)
count_stable(f, T, Pr, k) ==
    Cardinality({j \in 1..Len(T) :
        \/ compare(f, T[k], T[j], Pr) < 0
        \/ (j < k /\ compare(f, T[k], T[j], Pr) = 0)})

\* the inner loop over j: Count[i] after "for j in range(n)", i = k - 1
count_loop(f, T, Pr, k) ==
    Cardinality({j \in 1..Len(T) : compare(f, T[k], T[j], Pr) < 0})

n == Len(Terms)

\* the locals of a call: [None] * n and [0] * n
NoneList == [k \in 1..n |-> None]

ZeroList == [k \in 1..n |-> 0]

NextFn(f) == IF f = "lex" THEN "glex" ELSE "grevlex"

NoCmp == [f \in Fns |-> << >>]

\* the counting double loop of determine_by_<f>
CountLoop(f) ==
    /\ pc = "count"
    /\ fn = f
    /\ Count' = [k \in 1..n |-> count_loop(f, Terms, P, k)]
    /\ pc' = "place"
    /\ i' = 0
    /\ UNCHANGED <<Terms, P, fn, TermsOut, ordered, returned, cmp>>

\* one iteration of the placement loop: TermsX[Count[i]] = Terms[i]
PlaceStep(f) ==
    /\ pc = "place"
    /\ fn = f
    /\ i < n
    /\ TermsOut' = [TermsOut EXCEPT ![Count[i + 1] + 1] = Terms[i + 1]]
    /\ i' = i + 1
    /\ UNCHANGED <<Terms, P, fn, pc, Count, ordered, returned, cmp>>

\* return TermsX; the script then calls the next function on the same input
Return(f) ==
    /\ pc = "place"
    /\ fn = f
    /\ i = n
    /\ ordered' = [ordered EXCEPT ![f] = TermsOut]
    /\ returned' = returned \cup {f}
    /\ IF f = "grevlex"
       THEN /\ pc' = "done"
            /\ UNCHANGED <<fn, Count, TermsOut>>
       ELSE /\ pc' = "count"
            /\ fn' = NextFn(f)
            /\ Count' = ZeroList
            /\ TermsOut' = NoneList
    /\ i' = 0
    /\ UNCHANGED <<Terms, P, cmp>>

determine_by_lex == CountLoop("lex") \/ PlaceStep("lex") \/ Return("lex")

determine_by_glex == CountLoop("glex") \/ PlaceStep("glex") \/ Return("glex")

determine_by_grevlex ==
    CountLoop("grevlex") \/ PlaceStep("grevlex") \/ Return("grevlex")

\* the inputs of the ordering runs: the script's test, the repeated-term
\* input, and every collection of two-variable monomials within the bounds
\* with every in-range Procedure
Inputs ==
    {<<ScriptTerms, Procedure>>, <<TieTerms, TieP>>}
        \cup (TermLists(Len(TieP)) \X Procedures(Len(TieP)))

Init ==
    /\ \E in \in Inputs : Terms = in[1] /\ P = in[2]
    /\ fn = "lex"
    /\ pc = "count"
    /\ i = 0
    /\ Count = ZeroList
    /\ TermsOut = NoneList
    /\ ordered = [f \in Fns |-> << >>]
    /\ returned = {}
    /\ cmp = NoCmp

Next == determine_by_lex \/ determine_by_glex \/ determine_by_grevlex

Spec == Init /\ [][Next]_vars

----------------------------------------------------------------------------
(* The comparators applied to three monomials M1, M2, M3 *)

\* the three-variable monomial triples and every in-range P over the
\* variables of Procedure
CompareInputs ==
    [1..3 -> Monomials(Len(Procedure))] \X Procedures(Len(Procedure))

\* compare_by_<f>(Ma, Mb, P) for every pair of the three monomials
Compare(f) ==
    /\ pc = "compare"
    /\ fn = f
    /\ cmp' = [cmp EXCEPT ![f] =
                [a \in 1..n |-> [b \in 1..n |-> compare(f, Terms[a], Terms[b], P)]]]
    /\ returned' = returned \cup {f}
    /\ IF f = "grevlex"
       THEN pc' = "done" /\ fn' = fn
       ELSE pc' = pc /\ fn' = NextFn(f)
    /\ UNCHANGED <<Terms, P, i, Count, TermsOut, ordered>>

InitCmp ==
    /\ \E in \in CompareInputs : Terms = in[1] /\ P = in[2]
    /\ fn = "lex"
    /\ pc = "compare"
    /\ i = 0
    /\ Count = ZeroList
    /\ TermsOut = NoneList
    /\ ordered = [f \in Fns |-> << >>]
    /\ returned = {}
    /\ cmp = NoCmp

NextCmp == Compare("lex") \/ Compare("glex") \/ Compare("grevlex")

SpecCmp == InitCmp /\ [][NextCmp]_vars

----------------------------------------------------------------------------
(* Vocabulary of the properties *)

\* the number of variables of the monomials of Terms
NVars == IF n = 0 THEN Len(P) ELSE Len(Terms[1])

\* P is a permutation of 0..N-1
PIsPermutation == IsPermutation(P, NVars)

\* no two terms at different positions compare to 0 under comparator f
NoTies(f) ==
    \A a, b \in 1..n : a # b => compare(f, Terms[a], Terms[b], P) # 0

\* two terms at different positions compare to 0 under comparator f
HasTie(f) ==
    \E a, b \in 1..n : a # b /\ compare(f, Terms[a], Terms[b], P) = 0

\* out holds exactly the terms of Terms, each as often as Terms does
IsRearrangement(out) ==
    /\ Len(out) = n
    /\ \A k \in 1..n :
          Cardinality({j \in 1..n : out[j] = Terms[k]})
              = Cardinality({j \in 1..n : Terms[j] = Terms[k]})

\* a stands at a lower index than b in out
Precedes(out, a, b) ==
    \E ka, kb \in 1..Len(out) : ka < kb /\ out[ka] = a /\ out[kb] = b

\* the number of terms strictly less than Terms[k] under comparator f
NumLess(f, k) ==
    Cardinality({j \in 1..n : compare(f, Terms[j], Terms[k], P) < 0})

\* the number of terms strictly greater than Terms[k] under comparator f
NumGreater(f, k) ==
    Cardinality({j \in 1..n : compare(f, Terms[j], Terms[k], P) > 0})

\* the placement loop of the running function has just executed iteration i
Placed == pc = "place" /\ pc' = "place" /\ i' = i + 1

\* the comparators whose results on the three monomials are recorded
Compared == {f \in Fns : cmp[f] # << >>}

RECURSIVE TotalDegree(_)
\* the sum of every exponent of M
TotalDegree(M) == IF M = << >> THEN 0 ELSE Head(M) + TotalDegree(Tail(M))

Sign(x) == IF x < 0 THEN -1 ELSE IF x > 0 THEN 1 ELSE 0

\* the positions of P at which the exponents of Ma and Mb differ
Differ(Ma, Mb) == {k \in 1..Len(P) : Ma[P[k] + 1] # Mb[P[k] + 1]}

SetMax(S) == CHOOSE x \in S : \A y \in S : y <= x

\* the inverted decision at the last position of P where Ma and Mb differ
ReverseScan(Ma, Mb) ==
    IF Differ(Ma, Mb) = {} THEN 0
    ELSE LET k == SetMax(Differ(Ma, Mb))
         IN  IF Ma[P[k] + 1] > Mb[P[k] + 1] THEN -1 ELSE 1

\* the rank of monomial a of the triple from the recorded results of f
RankOf(f, a) == Cardinality({b \in 1..n : cmp[f][a][b] < 0})

----------------------------------------------------------------------------
(* Ordering claims, checked under Spec *)

\* C1 as stated: with no ties under the comparator, each determine_by_*
\* returns a rearrangement of Terms in ascending order (every adjacent pair
\* compares <= 0, and so does every pair of positions i < j)
C1_AscendingOrder ==
    \A f \in returned :
        NoTies(f) =>
            /\ IsRearrangement(ordered[f])
            /\ \A a, b \in 1..n :
                  a < b => compare(f, ordered[f][a], ordered[f][b], P) <= 0

\* C1 amended: with no ties under the comparator, each determine_by_*
\* returns a rearrangement of Terms in descending order (every adjacent
\* pair compares >= 0, and so does every pair of positions i < j)
C1_DescendingOrder ==
    \A f \in returned :
        NoTies(f) =>
            /\ IsRearrangement(ordered[f])
            /\ \A a, b \in 1..n :
                  a < b => compare(f, ordered[f][a], ordered[f][b], P) >= 0

\* C1 witness: all three functions returned three untied terms under a
\* permutation P, and the lex result is not the input order
C1_Witness ==
    /\ pc = "done"
    /\ n >= 3
    /\ PIsPermutation
    /\ \A f \in Fns : NoTies(f)
    /\ ordered["lex"] # Terms
    /\ ordered["lex"] # ordered["glex"]

\* C5: two terms that compare equal get the same output index, and the
\* returned sequence has length n, an unfilled slot, and is no rearrangement
\* of Terms; [[1,0],[1,0]] with P=[0,1] returns [[1,0], None]
C5_RankCollision ==
    /\ pc = "place" =>
          \A a, b \in 1..n :
              (a # b /\ compare(fn, Terms[a], Terms[b], P) = 0)
                  => Count[a] = Count[b]
    /\ \A f \in returned :
          HasTie(f) =>
              /\ Len(ordered[f]) = n
              /\ \E k \in 1..n : ordered[f][k] = None
              /\ ~IsRearrangement(ordered[f])
    /\ \A f \in returned :
          (Terms = TieTerms /\ P = TieP) => ordered[f] = << <<1, 0>>, None >>

\* C5 witness: the repeated-term input went through all three functions,
\* the second term having overwritten the first in slot 0
C5_Witness ==
    /\ pc = "done"
    /\ Terms = TieTerms
    /\ P = TieP
    /\ \A f \in Fns : HasTie(f) /\ ordered[f][2] = None

\* C6 as stated: lex on the script's test puts [1,1,3] and [1,4,0] before
\* [2,8,0] and before [5,1,4], with [5,1,4] last
C6_ScenarioA ==
    (Terms = ScriptTerms /\ P = Procedure /\ "lex" \in returned) =>
        /\ Precedes(ordered["lex"], <<1, 1, 3>>, <<2, 8, 0>>)
        /\ Precedes(ordered["lex"], <<1, 1, 3>>, <<5, 1, 4>>)
        /\ Precedes(ordered["lex"], <<1, 4, 0>>, <<2, 8, 0>>)
        /\ Precedes(ordered["lex"], <<1, 4, 0>>, <<5, 1, 4>>)
        /\ ordered["lex"][n] = <<5, 1, 4>>

\* C6 amended: lex on the script's test returns
\* [[5,1,4],[1,1,3],[2,8,0],[1,4,0]]: [5,1,4] first, [1,4,0] last
C6_ScenarioA_Descending ==
    (Terms = ScriptTerms /\ P = Procedure /\ "lex" \in returned) =>
        ordered["lex"] = << <<5, 1, 4>>, <<1, 1, 3>>, <<2, 8, 0>>, <<1, 4, 0>> >>

\* C6 witness: determine_by_lex has returned on the script's test
C6_Witness ==
    /\ Terms = ScriptTerms
    /\ P = Procedure
    /\ "lex" \in returned
    /\ Len(ordered["lex"]) = 4

\* C7 as stated: on the script's test [5,1,4] precedes [2,8,0] in the
\* grevlex result and [2,8,0] precedes [5,1,4] in the lex result
C7_ScenarioC ==
    (Terms = ScriptTerms /\ P = Procedure /\ pc = "done") =>
        /\ Precedes(ordered["grevlex"], <<5, 1, 4>>, <<2, 8, 0>>)
        /\ Precedes(ordered["lex"], <<2, 8, 0>>, <<5, 1, 4>>)

\* C7 amended: on the script's test [2,8,0] precedes [5,1,4] in the
\* grevlex result and [5,1,4] precedes [2,8,0] in the lex result
C7_ScenarioC_Descending ==
    (Terms = ScriptTerms /\ P = Procedure /\ pc = "done") =>
        /\ Precedes(ordered["grevlex"], <<2, 8, 0>>, <<5, 1, 4>>)
        /\ ~Precedes(ordered["grevlex"], <<5, 1, 4>>, <<2, 8, 0>>)
        /\ Precedes(ordered["lex"], <<5, 1, 4>>, <<2, 8, 0>>)
        /\ ~Precedes(ordered["lex"], <<2, 8, 0>>, <<5, 1, 4>>)

\* C7 witness: all three functions have returned on the script's test
C7_Witness ==
    /\ Terms = ScriptTerms
    /\ P = Procedure
    /\ pc = "done"
    /\ IsRearrangement(ordered["grevlex"])
    /\ IsRearrangement(ordered["lex"])

\* C8 as stated: iteration i of the placement loop writes Terms[i] to the
\* position that is the number of terms strictly less than Terms[i]
C8_PlacedAtNumLess ==
    [][Placed => TermsOut'[NumLess(fn, i + 1) + 1] = Terms[i + 1]]_vars

\* C8 amended: iteration i of the placement loop writes Terms[i] to the
\* position that is the number of terms strictly greater than Terms[i]
C8_PlacedAtNumGreater ==
    [][Placed =>
          /\ TermsOut'[NumGreater(fn, i + 1) + 1] = Terms[i + 1]
          /\ \A k \in 1..n :
                k # NumGreater(fn, i + 1) + 1 => TermsOut'[k] = TermsOut[k]]_vars

\* C8 witness: the placement loop has run over three terms, one of which
\* has more greater terms than lesser ones and stands at that position
C8_Witness ==
    /\ pc = "place"
    /\ i = n
    /\ n >= 3
    /\ \E k \in 1..n :
          /\ NumGreater(fn, k) > NumLess(fn, k)
          /\ TermsOut[NumGreater(fn, k) + 1] = Terms[k]

\* C9: Count[i] is the number of j with compare(Terms[i], Terms[j], P) < 0,
\* and with no ties the result is a rearrangement of Terms in strictly
\* descending order: adjacent pairs compare +1, greatest first, least last
C9_StrictlyDescending ==
    /\ pc = "place" =>
          \A k \in 1..n :
              Count[k] = Cardinality({j \in 1..n :
                             compare(fn, Terms[k], Terms[j], P) < 0})
    /\ \A f \in returned :
          (NoTies(f) /\ n >= 1) =>
              /\ IsRearrangement(ordered[f])
              /\ \A k \in 1..(n - 1) :
                    compare(f, ordered[f][k], ordered[f][k + 1], P) = 1
              /\ \A j \in 1..n : compare(f, ordered[f][1], Terms[j], P) >= 0
              /\ \A j \in 1..n : compare(f, ordered[f][n], Terms[j], P) <= 0

\* C9 witness: determine_by_grevlex is placing three untied terms whose
\* input order is neither ascending nor descending
C9_Witness ==
    /\ fn = "grevlex"
    /\ pc = "place"
    /\ i = n
    /\ n >= 3
    /\ NoTies("grevlex")
    /\ Count[1] = 1
    /\ "glex" \in returned
    /\ NoTies("glex")

----------------------------------------------------------------------------
(* Comparator claims, checked under SpecCmp *)

\* C2: every comparator result is -1, 0 or +1, compare(M1,M2,P) is
\* -compare(M2,M1,P), and compare(M,M,P) is 0, for every in-range P
C2_Antisymmetric ==
    \A f \in Compared : \A a, b \in 1..n :
        /\ cmp[f][a][b] \in {-1, 0, 1}
        /\ cmp[f][a][b] = -cmp[f][b][a]
        /\ cmp[f][a][a] = 0

\* C2 witness: all three comparators ran with a P that is no permutation
\* and returned -1 one way and +1 the other
C2_Witness ==
    /\ Compared = Fns
    /\ ~PIsPermutation
    /\ \A f \in Fns : cmp[f][1][2] = -1 /\ cmp[f][2][1] = 1

\* C3: when the total degrees differ, glex and grevlex return the sign of
\* the degree difference, for every P, the degree being the sum of every
\* exponent
C3_DegreePrecedence ==
    \A f \in Compared \cap {"glex", "grevlex"} : \A a, b \in 1..n :
        TotalDegree(Terms[a]) # TotalDegree(Terms[b]) =>
            cmp[f][a][b] = Sign(TotalDegree(Terms[a]) - TotalDegree(Terms[b]))

\* C3 witness: P names one variable only, on which M1 has the larger
\* exponent, and M1 has the smaller degree: lex says +1, the graded ones -1
C3_Witness ==
    /\ Compared = Fns
    /\ Len(P) = 1
    /\ cmp["lex"][1][2] = 1
    /\ cmp["glex"][1][2] = -1
    /\ cmp["grevlex"][1][2] = -1

\* C4: at equal total degree grevlex decides at the last position of P
\* where the exponents differ, inverted (larger exponent => -1, smaller =>
\* +1, none => 0); a larger exponent of M1 at the last entry of P gives -1
C4_GrevlexInversion ==
    "grevlex" \in Compared =>
        \A a, b \in 1..n :
            TotalDegree(Terms[a]) = TotalDegree(Terms[b]) =>
                /\ cmp["grevlex"][a][b] = ReverseScan(Terms[a], Terms[b])
                /\ (Len(P) >= 1 /\ Terms[a][P[Len(P)] + 1] > Terms[b][P[Len(P)] + 1])
                      => cmp["grevlex"][a][b] = -1

\* C4 witness: two monomials of equal degree under a permutation P, M1
\* with the larger exponent at the last entry of P: grevlex says -1 where
\* glex says +1
C4_Witness ==
    /\ "grevlex" \in Compared
    /\ PIsPermutation
    /\ TotalDegree(Terms[1]) = TotalDegree(Terms[2])
    /\ Terms[1][P[Len(P)] + 1] > Terms[2][P[Len(P)] + 1]
    /\ cmp["grevlex"][1][2] = -1
    /\ cmp["glex"][1][2] = 1

\* C10: when P is a permutation, each comparator returns 0 exactly on
\* identical vectors and is transitive, so pairwise-different vectors get
\* pairwise-different ranks
C10_StrictTotalOrder ==
    PIsPermutation =>
        \A f \in Compared :
            /\ \A a, b \in 1..n : (cmp[f][a][b] = 0) <=> (Terms[a] = Terms[b])
            /\ \A a, b, c \in 1..n :
                  (cmp[f][a][b] < 0 /\ cmp[f][b][c] < 0) => cmp[f][a][c] < 0
            /\ (\A a, b \in 1..n : a # b => Terms[a] # Terms[b])
                  => \A a, b \in 1..n : a # b => RankOf(f, a) # RankOf(f, b)

\* C10 witness: three pairwise-different monomials of one degree under a
\* permutation P, with M1 < M2 < M3 in grevlex
C10_Witness ==
    /\ Compared = Fns
    /\ PIsPermutation
    /\ TotalDegree(Terms[1]) = TotalDegree(Terms[2])
    /\ TotalDegree(Terms[2]) = TotalDegree(Terms[3])
    /\ cmp["grevlex"][1][2] < 0
    /\ cmp["grevlex"][2][3] < 0
    /\ cmp["grevlex"][1][3] < 0

====
